---- MODULE Spec2Model ----
(***************************************************************************)
(* Model of c7n/credentials.py: the process-wide client cache of           *)
(* CustodianSession (client, _cache_key, close) and the SessionFactory /   *)
(* assumed_session / get_sts_client session builders.                      *)
(***************************************************************************)
EXTENDS Integers, Sequences, FiniteSets, TLC

(***************************************************************************)
(* Bounds of the model.                                                    *)
(***************************************************************************)
NumThreads == 2
NumSessions == 2
MaxClients == 3
MaxExpiries == 1
MaxCalls == 2
MaxAttempts == 2
MaxRefreshes == 2
\* Python's hash() maps the unbounded space of credential tuples onto a
\* fixed-width integer; the model keeps a width but scales it down.
HashSpace == 2

(***************************************************************************)
(* Values.                                                                 *)
(***************************************************************************)
None == "None"
Threads == 1..NumThreads
Services == {"s3"}
Regions == {"us-east-1", "us-west-2"}
RegionArgs == Regions \cup {None}
Configs == {None, "config"}
\* The other keyword arguments of client(): none, or an endpoint_url.
Kwargs == {None, "endpoint_url"}

\* A frozen credential snapshot: botocore's ReadOnlyCredentials namedtuple
\* (access_key, secret_key, token).  The strings are numbered; a secret key
\* belongs to its access key.
Snapshots ==
    {[access_key |-> a, secret_key |-> a, token |-> k] : a \in 1..2, k \in 0..1}

HashValues == 0..(HashSpace - 1)
Keys == HashValues \X Services \X Regions
NoKey == <<0, "", "">>

\* Python truthiness of an optional argument.
Truthy(x) == x \notin {None, ""}

\* Python's `a or b`.
Or(a, b) == IF Truthy(a) THEN a ELSE b

\* hash() of the frozen credential tuple: a tuple hash combines the fields'
\* hashes and reduces the result to the hash width.
Hash(c) == (31 * (31 * c.access_key + c.secret_key) + c.token) % HashSpace

\* A key built from the session's own default region, whatever region the
\* call names.
cache_key_session_region(sess, service_name, region_name) ==
    <<Hash(sess.creds), service_name, sess.region>>

\* CustodianSession._cache_key
cache_key(sess, service_name, region_name) ==
    <<Hash(sess.creds), service_name, Or(region_name, sess.region)>>

\* A client() that never takes the bypass branch.
BypassNever(config) == FALSE

\* `if kw.get('config')`: the call bypasses the cache.
Bypass(config) == Truthy(config)

\* dict.get(key): 0 stands for None, client handles are numbered from 1.
Get(m, key) == IF key \in DOMAIN m THEN m[key] ELSE 0

\* m[key] = c
Put(m, key, c) == [k \in DOMAIN m \cup {key} |-> IF k = key THEN c ELSE m[k]]

EmptyMap == [k \in {} |-> 0]

RECURSIVE Ascending(_)
Ascending(S) ==
    IF S = {} THEN <<>>
    ELSE LET m == CHOOSE x \in S : \A y \in S : x <= y
         IN <<m>> \o Ascending(S \ {m})

\* dict.values(): insertion order.  Entries are only ever added under the
\* lock with a handle built under the lock, so insertion order is the order
\* of the handles' numbers.
Values(m) == Ascending({m[k] : k \in DOMAIN m})

VARIABLES
    sessions,   \* the CustodianSession objects: default region, credentials
    clients,    \* CustodianSession._clients
    lock,       \* CustodianSession.lock: 0 free, else the holding thread
    pc,         \* each thread's position
    call,       \* each thread's current call
    res,        \* each thread's local `client` (0: None)
    iter,       \* close: the handles the loop has still to release
    closed,     \* close: the handles this close call has released so far
    nextId,     \* number of the next client a constructor builds
    ctorOk,     \* per key: constructor returns on the cached path since the last reset
    released,   \* handles of the mapping on which close() has been called
    expiries,   \* credential expiries so far
    builtWith,  \* per cached client: the other arguments its constructor was given
    env,        \* the process environment: USE_STS_REGIONAL, the ambient region
    factory,    \* the SessionFactory object
    made,       \* the sessions SessionFactory.__call__ has returned
    issued,     \* how many credential sets the identity service has issued
    lastCall,   \* what the last SessionFactory.__call__ did
    asked,      \* the returned sessions that have been asked for a service client
    later       \* the refreshes made after a session was returned

cacheVars == <<sessions, clients, lock, pc, call, res, iter, closed, nextId,
               ctorOk, released, expiries, builtWith>>
factoryVars == <<env, factory, made, issued, lastCall, asked, later>>
vars == <<cacheVars, factoryVars>>

\* A call record: the operation, the session it is made on, its arguments,
\* the frozen credentials read and the key computed by the call, and whether
\* the mapping the call read is still the current one.
NoCreds == [access_key |-> 0, secret_key |-> 0, token |-> 0]
NoCall == [op |-> "none", sess |-> 0, svc |-> "", rn |-> None, config |-> None,
           kw |-> None, creds |-> NoCreds, key |-> NoKey, current |-> FALSE]

\* The sessions are built in one process from the same ambient credentials,
\* with alternating default regions.
AmbientCredentials == [access_key |-> 1, secret_key |-> 1, token |-> 0]
DefaultRegion(s) == IF s % 2 = 1 THEN "us-east-1" ELSE "us-west-2"

Free(t) == pc[t] \in {"idle", "done", "raised"}

InitCache ==
    /\ sessions = [s \in 1..NumSessions |->
                      [region |-> DefaultRegion(s), creds |-> AmbientCredentials,
                       expired |-> FALSE]]
    /\ clients = EmptyMap
    /\ lock = 0
    /\ pc = [t \in Threads |-> "idle"]
    /\ call = [t \in Threads |-> NoCall]
    /\ res = [t \in Threads |-> 0]
    /\ iter = [t \in Threads |-> <<>>]
    /\ closed = [t \in Threads |-> <<>>]
    /\ nextId = 1
    /\ ctorOk = [k \in Keys |-> 0]
    /\ released = {}
    /\ expiries = 0
    /\ builtWith = EmptyMap

\* Time passes the expiry of a session's credentials.
Expire(s) ==
    /\ expiries < MaxExpiries
    /\ ~sessions[s].expired
    /\ sessions' = [sessions EXCEPT ![s].expired = TRUE]
    /\ expiries' = expiries + 1
    /\ UNCHANGED factoryVars
    /\ UNCHANGED <<builtWith, clients, lock, pc, call, res, iter, closed, nextId,
                   ctorOk, released>>

\* get_credentials().get_frozen_credentials(): an expired snapshot is
\* refreshed before it is read, and the refresh issues new credentials.
Refreshed(sess, fresh) ==
    IF sess.expired THEN fresh # sess.creds ELSE fresh = sess.creds

\* client(), lines 31-32: with a config override, super().client() builds a
\* fresh client or raises.
ClientConfig(t, s, svc, rn, config) ==
    /\ Free(t)
    /\ Bypass(config)
    /\ \/ /\ nextId <= MaxClients
          /\ call' = [call EXCEPT ![t] =
                       [NoCall EXCEPT !.op = "client", !.sess = s, !.svc = svc,
                                      !.rn = rn, !.config = config]]
          /\ res' = [res EXCEPT ![t] = nextId]
          /\ nextId' = nextId + 1
          /\ pc' = [pc EXCEPT ![t] = "done"]
       \/ /\ call' = [call EXCEPT ![t] =
                       [NoCall EXCEPT !.op = "client", !.config = config]]
          /\ res' = [res EXCEPT ![t] = 0]
          /\ pc' = [pc EXCEPT ![t] = "raised"]
          /\ UNCHANGED nextId
    /\ closed' = [closed EXCEPT ![t] = <<>>]
    /\ UNCHANGED factoryVars
    /\ UNCHANGED <<builtWith, sessions, clients, lock, iter, ctorOk,
                   released, expiries>>

\* client(), lines 34-37: compute the key, look it up without the lock.
ClientLookup(t, s, svc, rn, config, kw) ==
    /\ Free(t)
    /\ ~Bypass(config)
    /\ \E fresh \in Snapshots :
         /\ Refreshed(sessions[s], fresh)
         /\ sessions' = [sessions EXCEPT ![s].creds = fresh, ![s].expired = FALSE]
         /\ LET key == cache_key(sessions'[s], svc, rn)
                client == Get(clients, key)
            IN /\ call' = [call EXCEPT ![t] =
                            [op |-> "client", sess |-> s, svc |-> svc, rn |-> rn,
                             config |-> config, kw |-> kw, creds |-> fresh,
                             key |-> key,
                             current |-> TRUE]]
               /\ res' = [res EXCEPT ![t] = client]
               /\ pc' = [pc EXCEPT ![t] = IF client # 0 THEN "done" ELSE "lock_wait"]
    /\ closed' = [closed EXCEPT ![t] = <<>>]
    /\ UNCHANGED factoryVars
    /\ UNCHANGED <<builtWith, clients, lock, iter, nextId, ctorOk,
                   released, expiries>>

\* A client() that takes the lock and constructs without looking the key up
\* again.
ClientRecheckWithoutLookup(t) ==
    /\ pc[t] = "lock_wait"
    /\ lock = 0
    /\ call' = [call EXCEPT ![t].current = TRUE]
    /\ pc' = [pc EXCEPT ![t] = "construct"]
    /\ lock' = t
    /\ UNCHANGED factoryVars
    /\ UNCHANGED <<builtWith, sessions, clients, res, iter, closed, nextId, ctorOk,
                   released, expiries>>

\* client(), lines 39-42: take the lock and look the key up again; a hit
\* returns and leaves the with block.
ClientRecheck(t) ==
    /\ pc[t] = "lock_wait"
    /\ lock = 0
    /\ LET client == Get(clients, call[t].key)
       IN /\ res' = [res EXCEPT ![t] = client]
          /\ call' = [call EXCEPT ![t].current = TRUE]
          /\ IF client # 0
             THEN /\ pc' = [pc EXCEPT ![t] = "done"]
                  /\ UNCHANGED lock
             ELSE /\ pc' = [pc EXCEPT ![t] = "construct"]
                  /\ lock' = t
    /\ UNCHANGED factoryVars
    /\ UNCHANGED <<builtWith, sessions, clients, iter, closed, nextId, ctorOk,
                   released, expiries>>

\* A client() that constructs from the service and region alone, without
\* the caller's other arguments.
ClientConstructDroppingArguments(t) ==
    /\ pc[t] = "construct"
    /\ nextId <= MaxClients
    /\ res' = [res EXCEPT ![t] = nextId]
    /\ nextId' = nextId + 1
    /\ ctorOk' = [ctorOk EXCEPT ![call[t].key] = @ + 1]
    /\ clients' = Put(clients, call[t].key, nextId)
    /\ builtWith' = Put(builtWith, nextId, None)
    /\ lock' = 0
    /\ pc' = [pc EXCEPT ![t] = "done"]
    /\ UNCHANGED factoryVars
    /\ UNCHANGED <<sessions, call, iter, closed, released, expiries>>

\* client(), lines 44-46: super().client() returns a new client, which is
\* stored and returned; the with block gives up the lock.
ClientConstruct(t) ==
    /\ pc[t] = "construct"
    /\ nextId <= MaxClients
    /\ res' = [res EXCEPT ![t] = nextId]
    /\ nextId' = nextId + 1
    /\ ctorOk' = [ctorOk EXCEPT ![call[t].key] = @ + 1]
    /\ clients' = Put(clients, call[t].key, nextId)
    /\ builtWith' = Put(builtWith, nextId, call[t].kw)
    /\ lock' = 0
    /\ pc' = [pc EXCEPT ![t] = "done"]
    /\ UNCHANGED factoryVars
    /\ UNCHANGED <<sessions, call, iter, closed, released, expiries>>

\* A client() that stores an entry for the key before the constructor has
\* returned.
ClientConstructRaiseStoring(t) ==
    /\ pc[t] = "construct"
    /\ call' = [call EXCEPT ![t] = [NoCall EXCEPT !.op = "client", !.key = call[t].key,
                                      !.current = TRUE]]
    /\ clients' = Put(clients, call[t].key, 0)
    /\ lock' = 0
    /\ pc' = [pc EXCEPT ![t] = "raised"]
    /\ UNCHANGED factoryVars
    /\ UNCHANGED <<builtWith, sessions, res, iter, closed, nextId, ctorOk,
                   released, expiries>>

\* A client() that keeps the lock when the constructor raises.
ClientConstructRaiseHoldingLock(t) ==
    /\ pc[t] = "construct"
    /\ call' = [call EXCEPT ![t] = [NoCall EXCEPT !.op = "client", !.key = call[t].key,
                                      !.current = TRUE]]
    /\ pc' = [pc EXCEPT ![t] = "raised"]
    /\ UNCHANGED factoryVars
    /\ UNCHANGED <<builtWith, sessions, clients, lock, res, iter, closed, nextId, ctorOk,
                   released, expiries>>

\* client(), line 44: super().client() raises; the with block gives up the
\* lock and the error leaves client().
ClientConstructRaise(t) ==
    /\ pc[t] = "construct"
    /\ call' = [call EXCEPT ![t] = [NoCall EXCEPT !.op = "client", !.key = call[t].key,
                                      !.current = TRUE]]
    /\ lock' = 0
    /\ pc' = [pc EXCEPT ![t] = "raised"]
    /\ UNCHANGED factoryVars
    /\ UNCHANGED <<builtWith, sessions, clients, res, iter, closed, nextId, ctorOk,
                   released, expiries>>

\* A close() that starts iterating the values without waiting for the lock.
CloseAcquireWithoutLock(t) ==
    /\ Free(t)
    /\ lock' = t
    /\ pc' = [pc EXCEPT ![t] = "closing"]
    /\ call' = [call EXCEPT ![t] = [NoCall EXCEPT !.op = "close"]]
    /\ res' = [res EXCEPT ![t] = 0]
    /\ iter' = [iter EXCEPT ![t] = Values(clients)]
    /\ closed' = [closed EXCEPT ![t] = <<>>]
    /\ UNCHANGED factoryVars
    /\ UNCHANGED <<builtWith, sessions, clients, nextId, ctorOk, released, expiries>>

\* close(), lines 59-60: take the lock, start iterating the values.
CloseAcquire(t) ==
    /\ Free(t)
    /\ lock = 0
    /\ lock' = t
    /\ pc' = [pc EXCEPT ![t] = "closing"]
    /\ call' = [call EXCEPT ![t] = [NoCall EXCEPT !.op = "close"]]
    /\ res' = [res EXCEPT ![t] = 0]
    /\ iter' = [iter EXCEPT ![t] = Values(clients)]
    /\ closed' = [closed EXCEPT ![t] = <<>>]
    /\ UNCHANGED factoryVars
    /\ UNCHANGED <<builtWith, sessions, clients, nextId, ctorOk, released, expiries>>

\* A close() whose loop passes over a handle without releasing it.
CloseReleaseSkipping(t) ==
    /\ pc[t] = "closing"
    /\ iter[t] # <<>>
    /\ iter' = [iter EXCEPT ![t] = Tail(@)]
    /\ UNCHANGED factoryVars
    /\ UNCHANGED <<builtWith, sessions, clients, lock, pc, call, res, closed, nextId, ctorOk,
                   released, expiries>>

\* close(), line 61: c.close() on the next handle.
CloseRelease(t) ==
    /\ pc[t] = "closing"
    /\ iter[t] # <<>>
    /\ released' = released \cup {Head(iter[t])}
    /\ closed' = [closed EXCEPT ![t] = Append(@, Head(iter[t]))]
    /\ iter' = [iter EXCEPT ![t] = Tail(@)]
    /\ UNCHANGED factoryVars
    /\ UNCHANGED <<builtWith, sessions, clients, lock, pc, call, res, nextId, ctorOk, expiries>>

\* close(), line 61: c.close() raises; the with block gives up the lock and
\* line 62 is not reached.
CloseReleaseRaise(t) ==
    /\ pc[t] = "closing"
    /\ iter[t] # <<>>
    /\ iter' = [iter EXCEPT ![t] = <<>>]
    /\ lock' = 0
    /\ pc' = [pc EXCEPT ![t] = "raised"]
    /\ UNCHANGED factoryVars
    /\ UNCHANGED <<builtWith, sessions, clients, call, res, closed, nextId, ctorOk, released, expiries>>

\* A close() that gives up the lock without replacing the mapping.
CloseResetKeepingMapping(t) ==
    /\ pc[t] = "closing"
    /\ iter[t] = <<>>
    /\ lock' = 0
    /\ pc' = [pc EXCEPT ![t] = "done"]
    /\ UNCHANGED factoryVars
    /\ UNCHANGED <<builtWith, sessions, clients, call, res, iter, closed, nextId, ctorOk,
                   released, expiries>>

\* close(), line 62: cls._clients = {}; the with block gives up the lock.
CloseReset(t) ==
    /\ pc[t] = "closing"
    /\ iter[t] = <<>>
    /\ clients' = EmptyMap
    /\ ctorOk' = [k \in Keys |-> 0]
    /\ released' = {}
    /\ call' = [u \in Threads |-> [call[u] EXCEPT !.current = FALSE]]
    /\ lock' = 0
    /\ pc' = [pc EXCEPT ![t] = "done"]
    /\ UNCHANGED factoryVars
    /\ UNCHANGED <<builtWith, sessions, res, iter, closed, nextId, expiries>>


(***************************************************************************)
(* SessionFactory, assumed_session, get_sts_client.                        *)
(***************************************************************************)
RoleArn == "arn:aws:iam::123456789012:role/Test"
Profiles == {None, "dev"}
SubscriberLists == {<<>>, <<"a">>, <<"b", "a">>}
PolicyNames == {"", "ec2-tag"}

\* The credentials a profile's static configuration holds.
ProfileCredentials(profile) ==
    IF profile = None THEN AmbientCredentials
    ELSE [access_key |-> 2, secret_key |-> 2, token |-> 0]

\* The n-th credential set the identity service issues: each one is new.
Issue(n) == [access_key |-> 2 + n, secret_key |-> 2 + n, token |-> n]

\* retry = get_retry(('Throttling',)): the attempts of one retried call.  All
\* but the last are throttled; the last is the answer, or the throttling
\* error that exhausts the attempts.
RetryRuns ==
    {run \in UNION {[1..n -> {"ok", "AccessDenied", "Throttling"}] : n \in 1..MaxAttempts} :
        /\ \A i \in 1..(Len(run) - 1) : run[i] = "Throttling"
        /\ run[Len(run)] = "Throttling" => Len(run) = MaxAttempts}

\* SessionFactory.__init__
NewFactory(region, profile, assume_role, external_id, session_policy, suffix) ==
    [region |-> region, profile |-> profile, session_policy |-> session_policy,
     assume_role |-> assume_role, external_id |-> external_id,
     session_name |-> IF suffix = None THEN <<"AccountResourceManager">>
                      ELSE <<"AccountResourceManager", "@", suffix>>,
     subscribers |-> <<>>, policy_name |-> ""]

\* boto3's Session(region_name=..., profile_name=...): an absent region is
\* read from the ambient configuration.
Session(region_name, profile_name) ==
    [cls |-> "Session", kind |-> "direct", profile |-> profile_name,
     region |-> IF region_name = None THEN env.region ELSE region_name,
     creds |-> ProfileCredentials(profile_name),
     refresh_using |-> <<>>,
     user_agent_name |-> "Boto3", user_agent_extra |-> <<>>]

\* A get_sts_client that takes the regional endpoint whenever a region is
\* given.
get_sts_client_ignoring_flag(session, region) ==
    IF Truthy(region)
    THEN [endpoint_url |-> <<"https://sts.", region, ".amazonaws.com">>,
          region_name |-> region]
    ELSE [endpoint_url |-> <<>>, region_name |-> None]

\* get_sts_client: the endpoint and region of the STS client.
get_sts_client(session, region) ==
    IF Truthy(region) /\ env.regional
    THEN [endpoint_url |-> <<"https://sts.", region, ".amazonaws.com">>,
          region_name |-> region]
    ELSE [endpoint_url |-> <<>>, region_name |-> None]

\* A refresh that leaves the external id out of the request.
refresh_without_external_id(role_arn, session_name, session_policy, session, region, external_id, run, n) ==
    [parameters |->
        [k \in {"RoleArn", "RoleSessionName"}
                 \cup (IF session_policy # None THEN {"Policy"} ELSE {}) |->
           CASE k = "RoleArn" -> <<role_arn>>
             [] k = "RoleSessionName" -> session_name
             [] k = "Policy" -> <<"json", session_policy>>],
     client |-> get_sts_client(session, region),
     attempts |-> Len(run),
     run |-> run,
     outcome |-> run[Len(run)],
     ok |-> run[Len(run)] = "ok",
     metadata |-> Issue(n)]

\* assumed_session.refresh: the request, the client it is sent through, the
\* attempts made, and the metadata built from the n-th issued credentials.
refresh(role_arn, session_name, session_policy, session, region, external_id, run, n) ==
    [parameters |->
        [k \in {"RoleArn", "RoleSessionName"}
                 \cup (IF session_policy # None THEN {"Policy"} ELSE {})
                 \cup (IF external_id # None THEN {"ExternalId"} ELSE {}) |->
           CASE k = "RoleArn" -> <<role_arn>>
             [] k = "RoleSessionName" -> session_name
             [] k = "Policy" -> <<"json", session_policy>>
             [] k = "ExternalId" -> <<external_id>>],
     client |-> get_sts_client(session, region),
     attempts |-> Len(run),
     run |-> run,
     outcome |-> run[Len(run)],
     ok |-> run[Len(run)] = "ok",
     metadata |-> Issue(n)]

\* The variables the refresh function closes over.  `region` is the local
\* variable of assumed_session, which lines 164-165 rebind before the function
\* is called again.
closure(role_arn, session_name, session_policy, session, region, external_id) ==
    [role_arn |-> role_arn, session_name |-> session_name,
     session_policy |-> session_policy, session |-> session, region |-> region,
     external_id |-> external_id]

\* An assumed_session that returns a session whatever the refresh answered.
assumed_session_ignoring_failure(role_arn, session_name, session_policy, session, region, external_id, run, n) ==
    LET first == refresh(role_arn, session_name, session_policy, session, region,
                         external_id, run, n + 1)
    IN [ok |-> TRUE,
        refreshes |-> <<first>>,
        session |->
          [cls |-> "Session", kind |-> "assumed", profile |-> session.profile,
           region |-> IF region = None THEN Or(env.region, "us-east-1") ELSE region,
           refresh_using |-> closure(role_arn, session_name, session_policy, session,
                                     IF region = None THEN Or(env.region, "us-east-1") ELSE region,
                                     external_id),
           creds |-> first.metadata,
           user_agent_name |-> "Boto3", user_agent_extra |-> <<>>]]

\* An assumed_session that leaves the region unset when neither the caller
\* nor the ambient configuration names one.
assumed_session_without_fallback(role_arn, session_name, session_policy, session, region, external_id, run, n) ==
    LET first == refresh(role_arn, session_name, session_policy, session, region,
                         external_id, run, n + 1)
    IN [ok |-> first.ok,
        refreshes |-> <<first>>,
        session |->
          [cls |-> "Session", kind |-> "assumed", profile |-> session.profile,
           region |-> IF region = None THEN env.region ELSE region,
           refresh_using |-> closure(role_arn, session_name, session_policy, session,
                                     IF region = None THEN env.region ELSE region,
                                     external_id),
           creds |-> first.metadata,
           user_agent_name |-> "Boto3", user_agent_extra |-> <<>>]]

\* An assumed_session that refreshes once to seed the credentials and once
\* more before it returns.
assumed_session_refreshing_twice(role_arn, session_name, session_policy, session, region, external_id, run, n) ==
    LET first == refresh(role_arn, session_name, session_policy, session, region,
                         external_id, run, n + 1)
        second == refresh(role_arn, session_name, session_policy, session, region,
                          external_id, run, n + 2)
    IN [ok |-> first.ok,
        refreshes |-> <<first, second>>,
        session |->
          [cls |-> "Session", kind |-> "assumed", profile |-> session.profile,
           region |-> IF region = None THEN Or(env.region, "us-east-1") ELSE region,
           refresh_using |-> closure(role_arn, session_name, session_policy, session,
                                     IF region = None THEN Or(env.region, "us-east-1") ELSE region,
                                     external_id),
           creds |-> second.metadata,
           user_agent_name |-> "Boto3", user_agent_extra |-> <<>>]]

\* assumed_session: one refresh seeds the credentials; the session's region
\* is the one passed, else the ambient one, else "us-east-1".
assumed_session(role_arn, session_name, session_policy, session, region, external_id, run, n) ==
    LET first == refresh(role_arn, session_name, session_policy, session, region,
                         external_id, run, n + 1)
    IN [ok |-> first.ok,
        refreshes |-> <<first>>,
        session |->
          [cls |-> "Session", kind |-> "assumed", profile |-> session.profile,
           region |-> IF region = None THEN Or(env.region, "us-east-1") ELSE region,
           refresh_using |-> closure(role_arn, session_name, session_policy, session,
                                     IF region = None THEN Or(env.region, "us-east-1") ELSE region,
                                     external_id),
           creds |-> first.metadata,
           user_agent_name |-> "Boto3", user_agent_extra |-> <<>>]]

\* A factory that assumes the role whenever one is configured.
DelegatesWheneverRole(f, assume) == Truthy(f.assume_role)

\* `self.assume_role and assume`
Delegates(f, assume) == Truthy(f.assume_role) /\ assume

\* `region or self.region`
EffectiveRegion(f, region) == Or(region, f.region)

\* SessionFactory.update: the identification metadata.
update(f, session) ==
    [session EXCEPT !.user_agent_name = "c7n",
                    !.user_agent_extra =
                        IF f.policy_name # "" THEN <<"ARM/policy#", f.policy_name>>
                        ELSE @]

\* A loop over the subscribers that runs from the last one to the first.
notify_reversed(f, session) ==
    [i \in 1..Len(f.subscribers) |->
        [callback |-> f.subscribers[Len(f.subscribers) + 1 - i], session |-> session]]

\* SessionFactory.update, lines 104-105: each subscriber is called with the
\* session, in list order.
notify(f, session) ==
    [i \in 1..Len(f.subscribers) |-> [callback |-> f.subscribers[i], session |-> session]]

NoLastCall == [seq |-> 0, assume |-> TRUE, region |-> None, delegated |-> FALSE,
               passed |-> None, ok |-> FALSE, refreshes |-> <<>>, session |-> 0,
               notified |-> <<>>]

\* SessionFactory.__call__
FactoryCall(assume, region) ==
    /\ lastCall.seq < MaxCalls
    /\ \E run \in RetryRuns :
         LET delegated == Delegates(factory, assume)
             passed == EffectiveRegion(factory, region)
             built == IF delegated
                      THEN assumed_session(factory.assume_role, factory.session_name,
                               factory.session_policy, Session(None, factory.profile),
                               passed, factory.external_id, run, issued)
                      ELSE [ok |-> TRUE, refreshes |-> <<>>,
                            session |-> Session(passed, factory.profile)]
         IN /\ ~delegated => run = <<"ok">>
            /\ made' = IF built.ok THEN Append(made, update(factory, built.session))
                       ELSE made
            /\ issued' = IF delegated /\ built.ok THEN issued + Len(built.refreshes)
                         ELSE issued
            /\ lastCall' = [seq |-> lastCall.seq + 1, assume |-> assume,
                            region |-> region, delegated |-> delegated,
                            passed |-> passed, ok |-> built.ok,
                            refreshes |-> built.refreshes,
                            session |-> IF built.ok THEN Len(made) + 1 ELSE 0,
                            notified |-> IF built.ok
                                         THEN notify(factory, update(factory, built.session))
                                         ELSE <<>>]
    /\ UNCHANGED <<env, factory, asked, later>>
    /\ UNCHANGED cacheVars

\* SessionFactory.set_subscribers
SetSubscribers(subscribers) ==
    /\ factory' = [factory EXCEPT !.subscribers = subscribers]
    /\ UNCHANGED <<env, made, issued, lastCall, asked, later>>
    /\ UNCHANGED cacheVars

\* SessionFactory.policy_name = name
SetPolicyName(name) ==
    /\ factory' = [factory EXCEPT !.policy_name = name]
    /\ UNCHANGED <<env, made, issued, lastCall, asked, later>>
    /\ UNCHANGED cacheVars

\* client(service) with no region and no config on a session the factory
\* returned.  The factory builds boto3 Session objects (lines 88, 93, 169),
\* whose client() builds a new client on every call and neither reads nor
\* writes CustodianSession._clients.
SessionClient(m, svc, rn, config) ==
    /\ made[m].cls = "Session"
    /\ asked' = IF rn = None /\ config = None THEN asked \cup {m} ELSE asked
    /\ UNCHANGED <<env, factory, made, issued, lastCall, later>>
    /\ UNCHANGED cacheVars

\* RefreshableCredentials calls refresh_using when it needs new credentials
\* for a session assumed_session returned.
SessionRefresh(m) ==
    /\ made[m].kind = "assumed"
    /\ Len(later) < MaxRefreshes
    /\ \E run \in RetryRuns :
         LET c == made[m].refresh_using
             again == refresh(c.role_arn, c.session_name, c.session_policy, c.session,
                              c.region, c.external_id, run, issued + 1)
         IN /\ later' = Append(later, [session |-> m, refresh |-> again])
            /\ made' = IF again.ok THEN [made EXCEPT ![m].creds = again.metadata]
                       ELSE made
            /\ issued' = IF again.ok THEN issued + 1 ELSE issued
    /\ UNCHANGED <<env, factory, lastCall, asked>>
    /\ UNCHANGED cacheVars

NoEnv == [regional |-> FALSE, region |-> None]
NoFactory == NewFactory(None, None, None, None, None, None)

\* The process uses CustodianSession objects and no SessionFactory.
Init ==
    /\ InitCache
    /\ env = NoEnv
    /\ factory = NoFactory
    /\ made = <<>>
    /\ issued = 0
    /\ lastCall = NoLastCall
    /\ asked = {}
    /\ later = <<>>

\* The process has read its environment and built one SessionFactory.
InitFactory ==
    /\ InitCache
    /\ env \in [regional : BOOLEAN, region : {None, "eu-west-1"}]
    /\ \E region \in RegionArgs, profile \in Profiles, assume_role \in {None, RoleArn},
          external_id \in {None}, session_policy \in {None}, suffix \in {None} :
         factory = NewFactory(region, profile, assume_role, external_id,
                              session_policy, suffix)
    /\ made = <<>>
    /\ issued = 0
    /\ lastCall = NoLastCall
    /\ asked = {}
    /\ later = <<>>

Next ==
    \/ \E t \in Threads, s \in 1..NumSessions, svc \in Services, rn \in RegionArgs,
          config \in Configs :
          \/ ClientConfig(t, s, svc, rn, config)
          \/ ClientLookup(t, s, svc, rn, config, None)
    \/ \E t \in Threads :
          \/ ClientRecheck(t)
          \/ ClientConstruct(t)
          \/ ClientConstructRaise(t)
          \/ CloseAcquire(t)
          \/ CloseRelease(t)
          \/ CloseReleaseRaise(t)
          \/ CloseReset(t)

\* The cache used through CustodianSession objects whose credentials do not
\* expire during the run.
Spec == Init /\ [][Next]_vars

\* The cache with threads that are scheduled: a constructor and a release
\* operation return or raise, a close() goes on to its next statement, and a
\* thread waiting for the lock is not passed over for ever.
Fairness ==
    \A t \in Threads :
       /\ WF_vars(ClientConstruct(t) \/ ClientConstructRaise(t))
       /\ WF_vars(CloseRelease(t) \/ CloseReleaseRaise(t) \/ CloseReset(t))
       /\ SF_vars(ClientRecheck(t))

SpecLive == Init /\ [][Next]_vars /\ Fairness

\* The SessionFactory and the sessions it returns.
NextFactory ==
    \/ \E assume \in BOOLEAN, region \in RegionArgs : FactoryCall(assume, region)
    \/ \E m \in 1..Len(made), svc \in Services, rn \in RegionArgs, config \in Configs :
          SessionClient(m, svc, rn, config)

SpecFactory == InitFactory /\ [][NextFactory]_vars

\* The process has built a SessionFactory that assumes a role, with or
\* without an external id, a session policy and C7N_SESSION_SUFFIX.
InitAssume ==
    /\ InitCache
    /\ env \in [regional : BOOLEAN, region : {None}]
    /\ \E region \in RegionArgs, external_id \in {None, "ext-1"},
          session_policy \in {None, "policy"}, suffix \in {None, "ci"} :
         factory = NewFactory(region, None, RoleArn, external_id, session_policy, suffix)
    /\ made = <<>>
    /\ issued = 0
    /\ lastCall = NoLastCall
    /\ asked = {}
    /\ later = <<>>

\* The role-assuming factory and the later refreshes of its sessions.
NextAssume ==
    \/ \E assume \in BOOLEAN, region \in RegionArgs : FactoryCall(assume, region)
    \/ \E m \in 1..Len(made) : SessionRefresh(m)

SpecAssume == InitAssume /\ [][NextAssume]_vars

\* The SessionFactory with its subscribers and policy name being set.
NextDecorate ==
    \/ \E assume \in BOOLEAN, region \in RegionArgs : FactoryCall(assume, region)
    \/ \E subscribers \in SubscriberLists : SetSubscribers(subscribers)
    \/ \E name \in PolicyNames : SetPolicyName(name)

SpecDecorate == InitFactory /\ [][NextDecorate]_vars

\* The cached path of client() and close(), with credentials that expire and
\* are refreshed on the next read; no constructor or release call raises.
NextRefresh ==
    \/ \E s \in 1..NumSessions : Expire(s)
    \/ \E t \in Threads, s \in 1..NumSessions, svc \in Services, rn \in RegionArgs :
          ClientLookup(t, s, svc, rn, None, None)
    \/ \E t \in Threads :
          \/ ClientRecheck(t)
          \/ ClientConstruct(t)
          \/ CloseAcquire(t)
          \/ CloseRelease(t)
          \/ CloseReset(t)

SpecRefresh == Init /\ [][NextRefresh]_vars

\* The cached path of client() called with and without other keyword
\* arguments, and close(); no constructor or release call raises.
NextKwargs ==
    \/ \E t \in Threads, s \in 1..NumSessions, svc \in Services, rn \in RegionArgs,
          kw \in Kwargs :
          ClientLookup(t, s, svc, rn, None, kw)
    \/ \E t \in Threads :
          \/ ClientRecheck(t)
          \/ ClientConstruct(t)
          \/ CloseAcquire(t)
          \/ CloseRelease(t)
          \/ CloseReset(t)

SpecKwargs == Init /\ [][NextKwargs]_vars

(***************************************************************************)
(* Properties of the client cache.                                         *)
(***************************************************************************)
Range(m) == {m[k] : k \in DOMAIN m}
Count(seq, x) == Cardinality({i \in 1..Len(seq) : seq[i] = x})

\* A call of client() on the cached path that has returned, and since whose
\* last read of the mapping no close() has replaced the mapping.
Returned(t) ==
    /\ pc[t] = "done"
    /\ call[t].op = "client"
    /\ ~Bypass(call[t].config)
    /\ call[t].current

\* A call of client() with a config override that has returned.
ReturnedFresh(t) ==
    /\ pc[t] = "done"
    /\ call[t].op = "client"
    /\ Truthy(call[t].config)

\* The step is one of thread t.
StepOf(t) == <<pc[t], call[t], res[t]>> # <<pc'[t], call'[t], res'[t]>>

\* C1: among client() calls without a config override for one key, the
\* constructor returns at most once while the mapping is not replaced, and
\* every such call that has returned holds the instance stored under the key:
\* callers with identical (credentials, service, effective region) hold the
\* same instance.
OneConstructionPerKey ==
    /\ \A k \in Keys : ctorOk[k] <= 1
    /\ \A t \in Threads :
         Returned(t) => /\ call[t].key \in DOMAIN clients
                        /\ res[t] = clients[call[t].key]
    /\ \A t, u \in Threads :
         (Returned(t) /\ Returned(u) /\ call[t].creds = call[u].creds
            /\ call[t].svc = call[u].svc
            /\ Or(call[t].rn, sessions[call[t].sess].region)
                 = Or(call[u].rn, sessions[call[u].sess].region))
         => res[t] = res[u]

\* Two calls missed the key together; one has constructed and returned, the
\* other is still waiting for the lock.
RacingCallsShareInstance ==
    \E t, u \in Threads :
       /\ t # u
       /\ Returned(t)
       /\ pc[u] = "lock_wait"
       /\ call[u].key = call[t].key
       /\ call[u].current
       /\ ctorOk[call[t].key] = 1
       /\ res[t] = clients[call[t].key]

\* C2: the step in which close() returns leaves the mapping empty, and the
\* call has released every handle that was in the mapping exactly once and
\* nothing else; on an empty mapping it has released nothing.
CloseReleasesEveryHandleOnce ==
    [][\A t \in Threads :
         (pc[t] = "closing" /\ pc'[t] = "done")
         => /\ clients' = EmptyMap
            /\ \A c \in Range(clients) : Count(closed[t], c) = 1
            /\ \A i \in 1..Len(closed[t]) : closed[t][i] \in Range(clients)
            /\ clients = EmptyMap => closed[t] = <<>>]_vars

\* A close() has returned after releasing two cached handles.
ClosedPopulatedCache ==
    \E t \in Threads :
       /\ pc[t] = "done"
       /\ call[t].op = "close"
       /\ Len(closed[t]) >= 2
       /\ clients = EmptyMap

\* C3: a client() call with a config override leaves the mapping unchanged,
\* and the instance it returns is not one stored in the mapping nor one held
\* by any other caller.
ConfigOverrideBypassesCache ==
    /\ [](\A t \in Threads :
            ReturnedFresh(t)
            => /\ res[t] # 0
               /\ res[t] \notin Range(clients)
               /\ \A u \in Threads \ {t} : res[u] # res[t])
    /\ [][\A t \in Threads :
            (StepOf(t) /\ call'[t].op = "client" /\ Truthy(call'[t].config))
            => clients' = clients]_vars

\* Two calls with a config override and identical parameters have returned
\* while the mapping holds an entry for their key.
ConfigOverrideWhileCached ==
    \E t, u \in Threads :
       /\ t # u
       /\ ReturnedFresh(t)
       /\ ReturnedFresh(u)
       /\ call[t].sess = call[u].sess
       /\ call[t].svc = call[u].svc
       /\ call[t].rn = call[u].rn
       /\ cache_key(sessions[call[t].sess], call[t].svc, call[t].rn) \in DOMAIN clients
       /\ res[t] # res[u]

\* C4: the step in which the constructor raises leaves the mapping as it
\* was, with no entry for the call's key, and an entry of the mapping always
\* comes from a constructor that returned: after the error the key is still
\* missing, so the next call for it constructs again.
RaisingConstructorStoresNothing ==
    /\ [](\A k \in DOMAIN clients : ctorOk[k] >= 1 /\ clients[k] # 0)
    /\ [][\A t \in Threads :
            (pc[t] = "construct" /\ pc'[t] = "raised")
            => /\ clients' = clients
               /\ call'[t].key = call[t].key
               /\ call[t].key \notin DOMAIN clients'
               /\ res'[t] = 0]_vars

\* A constructor raised for a key, and a later call for the same key has
\* constructed and stored an instance.
ConstructedAgainAfterRaise ==
    \E t, u \in Threads :
       /\ t # u
       /\ pc[t] = "raised"
       /\ call[t].op = "client"
       /\ call[t].current
       /\ call[t].key # NoKey
       /\ Returned(u)
       /\ call[u].key = call[t].key
       /\ ctorOk[call[t].key] = 1
       /\ res[u] = clients[call[u].key]


\* The region a call's key is built for.
EffectiveCallRegion(t) == Or(call[t].rn, sessions[call[t].sess].region)

\* Two calls of client() on the cached path for the same service and
\* effective region.
SameServiceAndRegion(t, u) ==
    /\ call[t].op = "client"
    /\ call[u].op = "client"
    /\ call[t].sess # 0
    /\ call[u].sess # 0
    /\ call[t].svc = call[u].svc
    /\ EffectiveCallRegion(t) = EffectiveCallRegion(u)

\* C5: in the step in which a client() call reads a session's refreshed
\* credentials, every entry of the mapping stays as it is, and the entry under
\* the key of the old credentials is not the one the call is given nor the
\* one its key names.
RefreshOrphansOldEntries ==
    [][\A t \in Threads :
         (StepOf(t) /\ call'[t].op = "client" /\ call'[t].sess # 0
            /\ sessions[call'[t].sess].expired /\ ~sessions'[call'[t].sess].expired)
         => LET old == cache_key(sessions[call'[t].sess], call'[t].svc, call'[t].rn)
            IN /\ call'[t].creds # sessions[call'[t].sess].creds
               /\ \A k \in DOMAIN clients : k \in DOMAIN clients' /\ clients'[k] = clients[k]
               /\ old \in DOMAIN clients
                    => (call'[t].key # old /\ res'[t] # clients[old])]_vars

\* C6: two client() calls whose credential snapshots differ in a field, for
\* the same service and region, have different keys, and are not given the
\* same instance.
SnapshotsHaveDistinctKeys ==
    \A t, u \in Threads :
       (SameServiceAndRegion(t, u) /\ call[t].creds # call[u].creds)
       => /\ call[t].key # call[u].key
          /\ (Returned(t) /\ Returned(u)) => res[t] # res[u]

\* C7: two client() calls with the same credential field values, service and
\* effective region have the same key, whichever sessions make them, and are
\* given the same instance.
SameValuesSameKey ==
    \A t, u \in Threads :
       (SameServiceAndRegion(t, u) /\ call[t].creds = call[u].creds)
       => /\ call[t].key = call[u].key
          /\ (Returned(t) /\ Returned(u)) => res[t] = res[u]

\* Two different sessions, one relying on its default region and one naming
\* that region, hold the same cached instance.
SessionsShareInstance ==
    \E t, u \in Threads :
       /\ SameServiceAndRegion(t, u)
       /\ call[t].sess # call[u].sess
       /\ call[t].creds = call[u].creds
       /\ call[t].rn = None
       /\ call[u].rn # None
       /\ Returned(t)
       /\ Returned(u)
       /\ res[t] # 0
       /\ res[t] = res[u]

(***************************************************************************)
(* Properties of the SessionFactory.                                       *)
(***************************************************************************)

\* C8: when two sessions returned by the factory for different regions have
\* each been asked for a service client without a config override, the
\* mapping holds two entries with different keys, one per region.
FactorySessionsFillCache ==
    \A m1, m2 \in asked :
       made[m1].region # made[m2].region
       => \E k1, k2 \in DOMAIN clients :
             /\ k1 # k2
             /\ k1[3] = made[m1].region
             /\ k2[3] = made[m2].region

\* C9: a factory call takes the role-assumption branch exactly when a role
\* is configured and assume is true, and otherwise builds a direct session
\* with the configured profile; the region it uses is the call's region when
\* given, else the factory's; the factory's region is not changed.
CreateDelegatesIffRoleAndAssume ==
    /\ [](lastCall.seq > 0
          => /\ lastCall.delegated <=> (factory.assume_role # None /\ lastCall.assume)
             /\ lastCall.passed = (IF lastCall.region # None THEN lastCall.region
                                   ELSE factory.region)
             /\ ~lastCall.delegated => lastCall.ok
             /\ lastCall.ok
                  => LET session == made[lastCall.session]
                     IN /\ session.kind = (IF lastCall.delegated THEN "assumed"
                                           ELSE "direct")
                        /\ session.profile = factory.profile
                        /\ lastCall.passed # None => session.region = lastCall.passed)
    /\ [][factory'.region = factory.region]_vars

\* The factory has built a direct and an assumed session, the last one for a
\* region given in the call that is not the factory's own.
BothBranchesTaken ==
    /\ \E i, j \in 1..Len(made) : made[i].kind = "direct" /\ made[j].kind = "assumed"
    /\ lastCall.ok
    /\ lastCall.region # None
    /\ factory.region \notin {None, lastCall.region}
    /\ made[lastCall.session].region = lastCall.region

\* C10: a factory call that assumes the role calls refresh exactly once, and
\* the credentials of the session it returns are those the refresh returned.
CreateRefreshesOnce ==
    (lastCall.seq > 0 /\ lastCall.delegated)
    => /\ Len(lastCall.refreshes) = 1
       /\ lastCall.ok
            => made[lastCall.session].creds = lastCall.refreshes[1].metadata

\* A factory call has assumed the role, its one refresh having been throttled
\* once before it was answered.
AssumedAfterOneRefresh ==
    /\ lastCall.delegated
    /\ lastCall.ok
    /\ Len(lastCall.refreshes) = 1
    /\ lastCall.refreshes[1].attempts = 2
    /\ made[lastCall.session].creds = Issue(issued)

\* The step is a SessionFactory.__call__.
Created == lastCall'.seq # lastCall.seq

\* C11: when the one refresh of a factory call ends with an error that is
\* not a throttling error, that error is the answer to the only request
\* sent after the throttled ones (it is not sent again), the call returns no
\* session, adds none to the sessions built, uses up no issued credentials
\* and calls no subscriber.
FailedRefreshSurfaces ==
    [][(Created /\ lastCall'.delegated
          /\ lastCall'.refreshes[1].outcome \notin {"ok", "Throttling"})
       => /\ Len(lastCall'.refreshes) = 1
          /\ LET run == lastCall'.refreshes[1].run
             IN \A i \in 1..Len(run) : run[i] # "Throttling" => i = Len(run)
          /\ ~lastCall'.ok
          /\ lastCall'.session = 0
          /\ made' = made
          /\ issued' = issued
          /\ lastCall'.notified = <<>>]_vars

\* A factory with subscribers has made a call whose refresh was refused at
\* the first request.
RefusedAtFirstRequest ==
    /\ lastCall.delegated
    /\ lastCall.refreshes[1].outcome = "AccessDenied"
    /\ lastCall.refreshes[1].attempts = 1
    /\ factory.subscribers # <<>>
    /\ lastCall.notified = <<>>
    /\ lastCall.session = 0

\* C13: a factory call that builds a session calls each subscriber of the
\* list the factory holds at that moment once, in list order, with the
\* session it returns, on which the identification metadata is already set.
SubscribersNotifiedInOrder ==
    [][(Created /\ lastCall'.ok)
       => LET session == made'[Len(made')]
          IN /\ lastCall'.session = Len(made')
             /\ session.user_agent_name = "c7n"
             /\ factory.policy_name # ""
                  => session.user_agent_extra = <<"ARM/policy#", factory.policy_name>>
             /\ Len(lastCall'.notified) = Len(factory.subscribers)
             /\ \A i \in 1..Len(factory.subscribers) :
                   /\ lastCall'.notified[i].callback = factory.subscribers[i]
                   /\ lastCall'.notified[i].session = session]_vars

\* The second factory call has notified the two subscribers of the list in
\* place, in its order, of a session carrying the policy name.
TwoSubscribersNotified ==
    /\ lastCall.seq = 2
    /\ lastCall.ok
    /\ Len(lastCall.notified) = 2
    /\ lastCall.notified[1].callback = "b"
    /\ lastCall.notified[2].callback = "a"
    /\ lastCall.notified[1].session.user_agent_extra # <<>>

AssumedSessionRegion ==
    (lastCall.delegated /\ lastCall.ok)
    => made[lastCall.session].region =
          (IF lastCall.passed # None THEN lastCall.passed
           ELSE IF env.region # None THEN env.region
           ELSE "us-east-1")

\* A role was assumed with no region passed and none in the ambient
\* configuration.
AssumedWithFallbackRegion ==
    /\ lastCall.delegated
    /\ lastCall.ok
    /\ lastCall.passed = None
    /\ env.region = None
    /\ made[lastCall.session].region = "us-east-1"

\* The request a refresh of the factory's sessions is to send.
ExpectedParameters ==
    [k \in {"RoleArn", "RoleSessionName"}
             \cup (IF factory.session_policy # None THEN {"Policy"} ELSE {})
             \cup (IF factory.external_id # None THEN {"ExternalId"} ELSE {}) |->
       CASE k = "RoleArn" -> <<factory.assume_role>>
         [] k = "RoleSessionName" -> factory.session_name
         [] k = "Policy" -> <<"json", factory.session_policy>>
         [] k = "ExternalId" -> <<factory.external_id>>]

\* C15: the request of the first refresh and of every later refresh holds
\* RoleArn and RoleSessionName, Policy (the serialized policy) exactly when a
\* session policy was given and ExternalId exactly when an external id was
\* given; a later refresh of the session last returned sends the request its
\* first refresh sent.
RefreshBuildsSamePayload ==
    /\ \A i \in 1..Len(lastCall.refreshes) :
          lastCall.refreshes[i].parameters = ExpectedParameters
    /\ \A i \in 1..Len(later) :
          /\ later[i].refresh.parameters = ExpectedParameters
          /\ {"RoleArn", "RoleSessionName"} \subseteq DOMAIN later[i].refresh.parameters
          /\ later[i].session = lastCall.session
               => later[i].refresh.parameters = lastCall.refreshes[1].parameters

\* A session built with an external id and no session policy has been
\* refreshed again.
RefreshedAgainWithExternalId ==
    /\ lastCall.delegated
    /\ lastCall.ok
    /\ factory.external_id # None
    /\ factory.session_policy = None
    /\ \E i \in 1..Len(later) :
          /\ later[i].session = lastCall.session
          /\ later[i].refresh.ok
          /\ DOMAIN later[i].refresh.parameters = {"RoleArn", "RoleSessionName", "ExternalId"}

(***************************************************************************)
(* Properties of the cache lock.                                           *)
(***************************************************************************)

\* The thread is inside a with block of client() or close().
InSection(t) == pc[t] \in {"construct", "closing"}

\* C16: at most one thread is inside the with blocks of client() and close(),
\* and it is the thread that holds the lock; the mapping changes only in a
\* step of the thread that holds the lock, and does not change between a
\* thread's second lookup and its store.
MutationsUnderLock ==
    /\ [](/\ \A t, u \in Threads : (InSection(t) /\ InSection(u)) => t = u
          /\ \A t \in Threads : InSection(t) <=> lock = t)
    /\ [][/\ clients' # clients => (lock # 0 /\ InSection(lock) /\ StepOf(lock))
          /\ \A t \in Threads :
                (pc[t] = "construct" /\ pc'[t] = "construct") => clients' = clients]_vars

\* A thread is between its second lookup and its store while another thread
\* that missed a key of the non-empty mapping waits for the lock.
WaitingOutsideSection ==
    \E t, u \in Threads :
       /\ t # u
       /\ pc[t] = "construct"
       /\ lock = t
       /\ pc[u] = "lock_wait"
       /\ clients # EmptyMap

\* C18: while no release operation raises, whenever the lock is free no
\* handle of the mapping has been released by close().
ReleasedHandlesLeaveMapping ==
    lock = 0 => \A c \in Range(clients) : c \notin released

\* A close() has released a handle and returned, and the mapping has since
\* been given an entry, none of whose handles that close() released.
NewEntryAfterClose ==
    \E t \in Threads :
       /\ pc[t] = "done"
       /\ call[t].op = "close"
       /\ closed[t] # <<>>
       /\ lock = 0
       /\ clients # EmptyMap
       /\ \A i \in 1..Len(closed[t]) : closed[t][i] \notin Range(clients)

\* C19: two client() calls without a config override that agree on the
\* credential hash, the service and the effective region hold the same cached
\* client whatever their other arguments; that client was built with the
\* other arguments of the call that constructed it, and they never change.
KeyIgnoresOtherArguments ==
    /\ [](\A t, u \in Threads :
            (Returned(t) /\ Returned(u) /\ SameServiceAndRegion(t, u)
               /\ Hash(call[t].creds) = Hash(call[u].creds))
            => /\ res[t] = res[u]
               /\ res[t] \in DOMAIN builtWith)
    /\ [][/\ \A t \in Threads :
               (pc[t] = "construct" /\ pc'[t] = "done")
               => /\ clients'[call[t].key] = res'[t]
                  /\ res'[t] \notin DOMAIN builtWith
                  /\ builtWith'[res'[t]] = call[t].kw
          /\ \A h \in DOMAIN builtWith :
               h \in DOMAIN builtWith' /\ builtWith'[h] = builtWith[h]]_vars

\* A call that names an endpoint_url holds the client that a call without
\* one constructed.
EndpointCallGivenPlainClient ==
    \E t, u \in Threads :
       /\ Returned(t)
       /\ Returned(u)
       /\ call[t].kw = None
       /\ call[u].kw # None
       /\ res[t] = res[u]
       /\ res[t] \in DOMAIN builtWith
       /\ builtWith[res[t]] = None

====
